---- MODULE Spec2Model ----
(***************************************************************************)
(* Model of compute_abs_flux_dask (calculate_swx_workflow.ipynb), the      *)
(* total-unsigned-flux keyword of a SHARP patch, together with the shape   *)
(* and geometry values that get_data_for_a_single_trec_dask hands to it.   *)
(*                                                                         *)
(* Floating point values are modelled as exact decimal rationals           *)
(* (n/d * 10^e) extended with NaN and +/-Infinity, without rounding, or as *)
(* binary values (a sign and the exponents of the bits that are set) whose *)
(* sums and products are rounded to the 53 bits of a float64, to nearest   *)
(* and ties to even.  The sign of zero and the exponent range are not      *)
(* modelled.  The value of np.sqrt(x)*a is kept as a sign and its exact    *)
(* square.                                                                 *)
(***************************************************************************)
EXTENDS Integers, Sequences, FiniteSets, TLC

\* --------------------------------------------------------------------------
\* Bounds of the model
\* --------------------------------------------------------------------------
MaxDim == 2
MaxPixels == 4
\* pixels of a patch when two calls run side by side
MaxPairPixels == 2
\* pixels of a patch whose pixels are visited in two orders
MaxOrderPixels == 3
\* pixels of an azimuth map
MaxAzimuthPixels == 2
\* applications of the Disambiguator to one azimuth map
MaxApplications == 2

\* --------------------------------------------------------------------------
\* float64 values: exact decimal rationals with NaN and Infinity
\* --------------------------------------------------------------------------
Abs(n) == IF n < 0 THEN -n ELSE n

Sgn(n) == IF n < 0 THEN -1 ELSE IF n = 0 THEN 0 ELSE 1

RECURSIVE Gcd(_, _)
Gcd(a, b) == IF b = 0 THEN a ELSE Gcd(b, a % b)

RECURSIVE Pow10(_)
Pow10(k) == IF k = 0 THEN 1 ELSE 10 * Pow10(k - 1)

\* number of times m divides n (n # 0)
RECURSIVE Times(_, _)
Times(n, m) == IF n % m = 0 THEN 1 + Times(n \div m, m) ELSE 0

RECURSIVE Pow(_, _)
Pow(b, k) == IF k = 0 THEN 1 ELSE b * Pow(b, k - 1)

NaN == [k |-> "nan", n |-> 0, d |-> 1, e |-> 0]

Inf(s) == [k |-> "inf", n |-> s, d |-> 1, e |-> 0]

Zero == [k |-> "fin", n |-> 0, d |-> 1, e |-> 0]

\* the canonical form of n/d * 10^e (d > 0): d coprime to 10, n/d in lowest
\* terms, n not a multiple of 10
Fin(n, d, e) ==
  IF n = 0 THEN Zero
  ELSE LET g  == Gcd(Abs(n), d)
           n1 == n \div g
           d1 == d \div g
           t2 == Times(d1, 2)
           d2 == d1 \div Pow(2, t2)
           t5 == Times(d2, 5)
           d3 == d2 \div Pow(5, t5)
           n3 == n1 * Pow(5, t2) * Pow(2, t5)
           tn == Times(n3, 10)
       IN  [k |-> "fin", n |-> n3 \div Pow10(tn), d |-> d3,
            e |-> e - t2 - t5 + tn]

Num(n) == Fin(n, 1, 0)

IsNaN(x) == x.k = "nan"

IsInf(x) == x.k = "inf"

IsFin(x) == x.k = "fin"

\* --- binary values ---
\* bits of the significand of a float64
Significand == 53

\* the value s * (sum of 2^k over k in bits), s the sign
BinOf(s, bits) ==
  [k |-> "bin", n |-> IF bits = {} THEN 0 ELSE s, d |-> 1, e |-> 0, bits |-> bits]

Max(S) == CHOOSE m \in S : \A k \in S : k <= m

Min(S) == CHOOSE m \in S : \A k \in S : m <= k

\* S + 2^k
RECURSIVE AddBit(_, _)
AddBit(S, k) == IF k \in S THEN AddBit(S \ {k}, k + 1) ELSE S \cup {k}

\* S + T, exactly
RECURSIVE AddBits(_, _)
AddBits(S, T) ==
  IF T = {} THEN S
  ELSE LET k == Max(T) IN AddBits(AddBit(S, k), T \ {k})

\* S * T, exactly
RECURSIVE MulBits(_, _)
MulBits(S, T) ==
  IF T = {} THEN {}
  ELSE LET k == Max(T)
       IN  AddBits(MulBits(S, T \ {k}), { b + k : b \in S })

\* S rounded to the bits of a significand, to nearest and ties to even
RoundToNearest(S) ==
  IF S = {} THEN {}
  ELSE LET cut  == Max(S) - Significand + 1
           kept == { k \in S : k >= cut }
           up   == /\ cut - 1 \in S
                   /\ (cut \in S \/ \E k \in S : k < cut - 1)
       IN  IF up THEN AddBit(kept, cut) ELSE kept

\* the bits of the natural number m
BitsOf(m) == { k \in 0 .. 30 : (m \div Pow(2, k)) % 2 = 1 }

\* a finite value as a binary value; the decimal n * 10^e has to be a
\* binary fraction
ToBin(x) ==
  IF x.k = "bin" THEN x
  ELSE IF x.e >= 0 THEN BinOf(Sgn(x.n), BitsOf(Abs(x.n) * Pow10(x.e)))
  ELSE LET m == CHOOSE q \in {Abs(x.n) \div Pow(5, -x.e)} :
                  x.d = 1 /\ q * Pow(5, -x.e) = Abs(x.n)
       IN  BinOf(Sgn(x.n), { k + x.e : k \in BitsOf(m) })

\* the float64 sum of two binary values of one sign
BinSum(x, y) ==
  LET s == CHOOSE t \in {x.n, y.n} : x.n * y.n >= 0 /\ (t # 0 \/ x.n = y.n)
  IN  BinOf(s, RoundToNearest(AddBits(x.bits, y.bits)))

\* the float64 product of two binary values
BinProduct(x, y) == BinOf(x.n * y.n, RoundToNearest(MulBits(x.bits, y.bits)))

\* the sum of two values
Sum(x, y) ==
  IF IsNaN(x) \/ IsNaN(y) THEN NaN
  ELSE IF IsInf(x) /\ IsInf(y) THEN (IF x.n = y.n THEN x ELSE NaN)
  ELSE IF IsInf(x) THEN x
  ELSE IF IsInf(y) THEN y
  ELSE IF x.k = "bin" \/ y.k = "bin" THEN BinSum(ToBin(x), ToBin(y))
  ELSE LET m == IF x.e < y.e THEN x.e ELSE y.e
       IN  Fin(x.n * Pow10(x.e - m) * y.d + y.n * Pow10(y.e - m) * x.d,
               x.d * y.d, m)

\* x + y, the operands evaluated once
Add(x, y) == CHOOSE r \in { Sum(a, b) : a \in {x}, b \in {y} } : TRUE

\* the product of two values
Product(x, y) ==
  IF IsNaN(x) \/ IsNaN(y) THEN NaN
  ELSE IF IsInf(x) \/ IsInf(y)
       THEN (IF x.n = 0 \/ y.n = 0 THEN NaN ELSE Inf(Sgn(x.n) * Sgn(y.n)))
  ELSE IF x.k = "bin" \/ y.k = "bin" THEN BinProduct(ToBin(x), ToBin(y))
  ELSE Fin(x.n * y.n, x.d * y.d, x.e + y.e)

\* x * y, the operands evaluated once
Mul(x, y) == CHOOSE r \in { Product(a, b) : a \in {x}, b \in {y} } : TRUE

\* the quotient of two values: of numpy.float64 operands with y # 0, and
\* for y = 0 where numpy warns and yields nan or inf
Quotient(x, y) ==
  IF IsNaN(x) \/ IsNaN(y) THEN NaN
  ELSE IF IsInf(y) THEN (IF IsInf(x) THEN NaN ELSE Zero)
  ELSE IF y.n = 0 THEN (IF x.n = 0 THEN NaN ELSE Inf(Sgn(x.n)))
  ELSE IF IsInf(x) THEN Inf(Sgn(x.n) * Sgn(y.n))
  ELSE Fin(x.n * y.d * Sgn(y.n), x.d * Abs(y.n), x.e - y.e)

\* x / y, the operands evaluated once
Div(x, y) == CHOOSE r \in { Quotient(a, b) : a \in {x}, b \in {y} } : TRUE

\* abs(x)
AbsF(x) == IF IsNaN(x) THEN NaN ELSE [x EXCEPT !.n = Abs(x.n)]

\* -x
Neg(x) == IF IsNaN(x) THEN NaN ELSE [x EXCEPT !.n = -x.n]

\* The product np.sqrt(x) * a, kept as its sign s and its exact square sq.
RNaN == [k |-> "nan", s |-> 0, sq |-> Zero]

RInf(s) == [k |-> "inf", s |-> s, sq |-> Zero]

RZero == [k |-> "fin", s |-> 0, sq |-> Zero]

\* np.sqrt(x): nan for a negative or nan argument
Sqrt(x) ==
  IF IsNaN(x) \/ x.n < 0 THEN RNaN
  ELSE IF IsInf(x) THEN RInf(1)
  ELSE IF x.n = 0 THEN RZero
  ELSE [k |-> "fin", s |-> 1, sq |-> x]

\* r * a for a square root r and a float a
RootMul(r, a) ==
  IF r.k = "nan" \/ IsNaN(a) THEN RNaN
  ELSE IF r.k = "inf" \/ IsInf(a)
       THEN (IF r.s = 0 \/ a.n = 0 THEN RNaN ELSE RInf(r.s * Sgn(a.n)))
  ELSE IF r.s = 0 \/ a.n = 0 THEN RZero
  ELSE [k |-> "fin", s |-> r.s * Sgn(a.n), sq |-> Mul(r.sq, Mul(a, a))]

\* --------------------------------------------------------------------------
\* Arrays: a shape (rows, columns) and the elements at 0-based [j, i]
\* --------------------------------------------------------------------------
Pixels(shape) == (0 .. shape[1] - 1) \X (0 .. shape[2] - 1)

Array(shape, f) == [shape |-> shape, at |-> f]

\* a[j, i] does not raise IndexError (the loop indices are never negative)
InBounds(a, jj, ii) == jj < a.shape[1] /\ ii < a.shape[2]

\* a[j, i].compute()
At(a, jj, ii) == a.at[<<jj, ii>>]

\* the leading rows and columns of a
Crop(a, shape) == Array(shape, [p \in Pixels(shape) |-> a.at[p]])

\* --------------------------------------------------------------------------
\* Inputs: the pixels and the geometry drawn for a call
\* --------------------------------------------------------------------------
Px(b, be, cd, bm) == [bz |-> b, bz_err |-> be, conf_disambig |-> cd, bitmap |-> bm]

\* pixel values: on both thresholds, well inside, below either threshold,
\* a NaN field, an infinite field, a NaN error
PixelKinds ==
  { Px(Fin(25, 1, -1), Fin(5, 1, -1), 70, 30),
    Px(Num(-2), Num(0), 90, 33),
    Px(Num(5), Num(1), 69, 30),
    Px(Num(7), Num(2), 70, 29),
    Px(NaN, Num(3), 70, 30),
    Px(Inf(1), Num(1), 90, 33),
    Px(Num(1), NaN, 90, 33) }

Geo(ref, obs, cd, ty) ==
  [rsun_ref |-> ref, rsun_obs |-> obs, cdelt1_arcsec |-> cd, scalar_type |-> ty]

\* geometry scalars: the usual positive ones, a negative and a zero observed
\* radius (as numpy.float64 and as a Python float), a negative pixel scale,
\* both radii zero
Geometries ==
  { Geo(Num(1), Num(1), Fin(5, 1, -1), "numpy.float64"),
    Geo(Num(0), Num(0), Num(1), "numpy.float64"),
    Geo(Num(3), Num(2), Num(2), "float"),
    Geo(Num(1), Num(-1), Num(1), "numpy.float64"),
    Geo(Num(1), Num(0), Num(1), "numpy.float64"),
    Geo(Num(1), Num(0), Num(1), "float"),
    Geo(Num(2), Num(1), Num(-1), "float") }

Shapes == { s \in (1 .. MaxDim) \X (1 .. MaxDim) : s[1] * s[2] <= MaxPixels }

\* the four arrays of a patch whose pixel p is of kind g[p], and a geometry
Patch(shape, g, geo) ==
  [bz            |-> Array(shape, [p \in Pixels(shape) |-> g[p].bz]),
   bz_err        |-> Array(shape, [p \in Pixels(shape) |-> g[p].bz_err]),
   conf_disambig |-> Array(shape, [p \in Pixels(shape) |-> g[p].conf_disambig]),
   bitmap        |-> Array(shape, [p \in Pixels(shape) |-> g[p].bitmap]),
   rsun_ref      |-> geo.rsun_ref,
   rsun_obs      |-> geo.rsun_obs,
   cdelt1_arcsec |-> geo.cdelt1_arcsec,
   scalar_type   |-> geo.scalar_type]

\* the shapes with one row or one column less
Smaller(shape) ==
  { s \in { <<shape[1] - 1, shape[2]>>, <<shape[1], shape[2] - 1>> } :
      s[1] >= 1 /\ s[2] >= 1 }

ArrayNames == {"bz", "bz_err", "conf_disambig", "bitmap"}

\* the patch in with the array named w cut down to shape s
Reshaped(in, w, s) ==
  [in EXCEPT ![w] = Crop(in[w], s)]

\* Br = 10 without error over a valid 10x10 region, 4e14 cm^2 per pixel
Scenario ==
  Patch(<<10, 10>>, [p \in Pixels(<<10, 10>>) |-> Px(Num(10), Num(0), 90, 33)],
        Geo(Num(696000000), Num(696000000), Num(200000), "numpy.float64"))

\* --------------------------------------------------------------------------
\* State: per call, the arguments, the locals and the position in the code
\* --------------------------------------------------------------------------
VARIABLES bz, bz_err, conf_disambig, bitmap, nx, ny, rsun_ref, rsun_obs,
          cdelt1_arcsec, scalar_type,
          j, i, sum, err, count_mask, mean_vf, mean_vf_err, pc, exc, result,
          \* the row of the query result that the notebook reads
          segments, keys,
          \* the Disambiguator: its arguments, the shifts its strategy picks
          \* for them and what its applications returned
          azimuth, method_code, confidence, inclination, strategy,
          resolved_azimuth

args == <<bz, bz_err, conf_disambig, bitmap, nx, ny, rsun_ref, rsun_obs,
          cdelt1_arcsec, scalar_type>>

locals == <<j, i, sum, err, count_mask, mean_vf, mean_vf_err, pc, exc, result>>

notebook == <<segments, keys>>

disambiguator == <<azimuth, method_code, confidence, inclination, strategy,
                   resolved_azimuth>>

others == <<notebook, disambiguator>>

vars == <<args, locals, others>>

Calls == DOMAIN pc

\* no exception so far
None == "None"

\* a local that is not yet assigned
Unbound == [k |-> "unbound"]

\* nothing returned so far
NoResult == <<>>

\* no query result is read
NoNotebook == segments = <<>> /\ keys = <<>>

\* no azimuth is resolved
NoDisambiguator ==
  /\ azimuth = <<>> /\ method_code = <<>> /\ confidence = <<>>
  /\ inclination = <<>> /\ strategy = <<>> /\ resolved_azimuth = <<>>

\* the calls ins[c] at the head of the loop: nx and ny come from bz.shape,
\* the accumulators are zero
Called(ins) ==
  /\ bz = [c \in DOMAIN ins |-> ins[c].bz]
  /\ bz_err = [c \in DOMAIN ins |-> ins[c].bz_err]
  /\ conf_disambig = [c \in DOMAIN ins |-> ins[c].conf_disambig]
  /\ bitmap = [c \in DOMAIN ins |-> ins[c].bitmap]
  /\ nx = [c \in DOMAIN ins |-> ins[c].bz.shape[2]]
  /\ ny = [c \in DOMAIN ins |-> ins[c].bz.shape[1]]
  /\ rsun_ref = [c \in DOMAIN ins |-> ins[c].rsun_ref]
  /\ rsun_obs = [c \in DOMAIN ins |-> ins[c].rsun_obs]
  /\ cdelt1_arcsec = [c \in DOMAIN ins |-> ins[c].cdelt1_arcsec]
  /\ scalar_type = [c \in DOMAIN ins |-> ins[c].scalar_type]
  /\ count_mask = [c \in DOMAIN ins |-> 0]
  /\ sum = [c \in DOMAIN ins |-> Zero]
  /\ err = [c \in DOMAIN ins |-> Zero]
  /\ j = [c \in DOMAIN ins |-> 0]
  /\ i = [c \in DOMAIN ins |-> 0]
  /\ mean_vf = [c \in DOMAIN ins |-> Unbound]
  /\ mean_vf_err = [c \in DOMAIN ins |-> Unbound]
  /\ pc = [c \in DOMAIN ins |-> "loop"]
  /\ exc = [c \in DOMAIN ins |-> None]
  /\ result = [c \in DOMAIN ins |-> NoResult]

\* calls of compute_abs_flux_dask and nothing else
Start(ins) == Called(ins) /\ NoNotebook /\ NoDisambiguator

\* one call: on a patch of any shape within the bounds, its arrays of one
\* shape or one of them smaller than the others, or on the scenario
Init ==
  \/ \E s \in Shapes, geo \in Geometries :
       \E g \in [Pixels(s) -> PixelKinds] :
         \/ Start([c \in {1} |-> Patch(s, g, geo)])
         \/ \E w \in ArrayNames, t \in Smaller(s) :
              Start([c \in {1} |-> Reshaped(Patch(s, g, geo), w, t)])
  \/ Start([c \in {1} |-> Scenario])

\* --------------------------------------------------------------------------
\* compute_abs_flux_dask
\* --------------------------------------------------------------------------
LowConfidenceInclusive(cd) == cd <= 70

\* conf_disambig[j,i] < 70
LowConfidence(cd) == cd < 70

\* bitmap[j,i] < 30
OutsideRegion(bm) == bm < 30

SumPlusSigned(s, b) == Add(s, b)

\* sum + abs(bz[j,i])
SumPlus(s, b) == Add(s, AbsF(b))

ErrPlusLinear(e, be) == Add(e, be)

\* err + bz_err[j,i]*bz_err[j,i]
ErrPlus(e, be) == Add(e, Mul(be, be))

AdvanceColumnMajor(c) ==
  IF j[c] + 1 < ny[c]
  THEN /\ j' = [j EXCEPT ![c] = j[c] + 1]
       /\ UNCHANGED <<i, pc>>
  ELSE IF i[c] + 1 < nx[c]
  THEN /\ i' = [i EXCEPT ![c] = i[c] + 1]
       /\ j' = [j EXCEPT ![c] = 0]
       /\ UNCHANGED pc
  ELSE /\ pc' = [pc EXCEPT ![c] = "scale"]
       /\ UNCHANGED <<j, i>>

\* the next (j, i) of the nested range loops, or the end of the loops
Advance(c) ==
  IF i[c] + 1 < nx[c]
  THEN /\ i' = [i EXCEPT ![c] = i[c] + 1]
       /\ UNCHANGED <<j, pc>>
  ELSE IF j[c] + 1 < ny[c]
  THEN /\ j' = [j EXCEPT ![c] = j[c] + 1]
       /\ i' = [i EXCEPT ![c] = 0]
       /\ UNCHANGED pc
  ELSE /\ pc' = [pc EXCEPT ![c] = "scale"]
       /\ UNCHANGED <<j, i>>

PassesMaskConfidenceOnly(c) ==
  /\ InBounds(conf_disambig[c], j[c], i[c])
  /\ ~LowConfidence(At(conf_disambig[c], j[c], i[c]))
  /\ InBounds(bitmap[c], j[c], i[c])

\* the first test passes: both maps are read (the second only when the
\* first comparison is false) and neither is below its threshold
PassesMask(c) ==
  /\ InBounds(conf_disambig[c], j[c], i[c])
  /\ ~LowConfidence(At(conf_disambig[c], j[c], i[c]))
  /\ InBounds(bitmap[c], j[c], i[c])
  /\ ~OutsideRegion(At(bitmap[c], j[c], i[c]))

\* an iteration that takes the first continue
SkipMasked(c) ==
  /\ pc[c] = "loop"
  /\ InBounds(conf_disambig[c], j[c], i[c])
  /\ \/ LowConfidence(At(conf_disambig[c], j[c], i[c]))
     \/ /\ InBounds(bitmap[c], j[c], i[c])
        /\ OutsideRegion(At(bitmap[c], j[c], i[c]))
  /\ Advance(c)
  /\ UNCHANGED <<others, args, sum, err, count_mask, mean_vf, mean_vf_err, exc, result>>

SkipNaNBreaks(c) ==
  /\ pc[c] = "loop"
  /\ PassesMask(c)
  /\ InBounds(bz[c], j[c], i[c])
  /\ IsNaN(At(bz[c], j[c], i[c]))
  /\ IF j[c] + 1 < ny[c]
     THEN /\ j' = [j EXCEPT ![c] = j[c] + 1]
          /\ i' = [i EXCEPT ![c] = 0]
          /\ UNCHANGED pc
     ELSE /\ pc' = [pc EXCEPT ![c] = "scale"]
          /\ UNCHANGED <<j, i>>
  /\ UNCHANGED <<others, args, sum, err, count_mask, mean_vf, mean_vf_err, exc, result>>

SkipNaNCounted(c) ==
  /\ pc[c] = "loop"
  /\ PassesMask(c)
  /\ InBounds(bz[c], j[c], i[c])
  /\ IsNaN(At(bz[c], j[c], i[c]))
  /\ count_mask' = [count_mask EXCEPT ![c] = count_mask[c] + 1]
  /\ Advance(c)
  /\ UNCHANGED <<others, args, sum, err, mean_vf, mean_vf_err, exc, result>>

\* an iteration that takes the second continue
SkipNaN(c) ==
  /\ pc[c] = "loop"
  /\ PassesMask(c)
  /\ InBounds(bz[c], j[c], i[c])
  /\ IsNaN(At(bz[c], j[c], i[c]))
  /\ Advance(c)
  /\ UNCHANGED <<others, args, sum, err, count_mask, mean_vf, mean_vf_err, exc, result>>

AccumulateInPlace(c) ==
  /\ pc[c] = "loop"
  /\ PassesMask(c)
  /\ InBounds(bz[c], j[c], i[c])
  /\ ~IsNaN(At(bz[c], j[c], i[c]))
  /\ InBounds(bz_err[c], j[c], i[c])
  /\ bz' = [bz EXCEPT ![c].at[<<j[c], i[c]>>] = AbsF(At(bz[c], j[c], i[c]))]
  /\ sum' = [sum EXCEPT ![c] = SumPlus(sum[c], At(bz[c], j[c], i[c]))]
  /\ err' = [err EXCEPT ![c] = ErrPlus(err[c], At(bz_err[c], j[c], i[c]))]
  /\ count_mask' = [count_mask EXCEPT ![c] = count_mask[c] + 1]
  /\ Advance(c)
  /\ UNCHANGED <<others, bz_err, conf_disambig, bitmap, nx, ny, rsun_ref,
                 rsun_obs, cdelt1_arcsec, scalar_type, mean_vf, mean_vf_err, exc,
                 result>>

AccumulateShared(c) ==
  /\ pc[c] = "loop"
  /\ PassesMask(c)
  /\ InBounds(bz[c], j[c], i[c])
  /\ ~IsNaN(At(bz[c], j[c], i[c]))
  /\ InBounds(bz_err[c], j[c], i[c])
  /\ sum' = [d \in Calls |-> SumPlus(sum[c], At(bz[c], j[c], i[c]))]
  /\ err' = [d \in Calls |-> ErrPlus(err[c], At(bz_err[c], j[c], i[c]))]
  /\ count_mask' = [d \in Calls |-> count_mask[c] + 1]
  /\ Advance(c)
  /\ UNCHANGED <<others, args, mean_vf, mean_vf_err, exc, result>>

\* an iteration that reaches the three updates
Accumulate(c) ==
  /\ pc[c] = "loop"
  /\ PassesMask(c)
  /\ InBounds(bz[c], j[c], i[c])
  /\ ~IsNaN(At(bz[c], j[c], i[c]))
  /\ InBounds(bz_err[c], j[c], i[c])
  /\ sum' = [sum EXCEPT ![c] = SumPlus(sum[c], At(bz[c], j[c], i[c]))]
  /\ err' = [err EXCEPT ![c] = ErrPlus(err[c], At(bz_err[c], j[c], i[c]))]
  /\ count_mask' = [count_mask EXCEPT ![c] = count_mask[c] + 1]
  /\ Advance(c)
  /\ UNCHANGED <<others, args, mean_vf, mean_vf_err, exc, result>>

\* an iteration that indexes outside conf_disambig, bitmap or bz_err; the
\* read of bz_err comes after the update of sum
RaiseIndexError(c) ==
  /\ pc[c] = "loop"
  /\ \/ /\ ~InBounds(conf_disambig[c], j[c], i[c])
        /\ UNCHANGED sum
     \/ /\ InBounds(conf_disambig[c], j[c], i[c])
        /\ ~LowConfidence(At(conf_disambig[c], j[c], i[c]))
        /\ ~InBounds(bitmap[c], j[c], i[c])
        /\ UNCHANGED sum
     \/ /\ PassesMask(c)
        /\ InBounds(bz[c], j[c], i[c])
        /\ ~IsNaN(At(bz[c], j[c], i[c]))
        /\ ~InBounds(bz_err[c], j[c], i[c])
        /\ sum' = [sum EXCEPT ![c] = SumPlus(sum[c], At(bz[c], j[c], i[c]))]
  /\ pc' = [pc EXCEPT ![c] = "raised"]
  /\ exc' = [exc EXCEPT ![c] = "IndexError"]
  /\ UNCHANGED <<others, args, j, i, err, count_mask, mean_vf, mean_vf_err, result>>

MeanVfPerMetre(s, cd, ref, obs) ==
  Mul(Mul(Mul(Mul(s, cd), cd), Div(ref, obs)), Div(ref, obs))

\* mean_vf
MeanVf(s, cd, ref, obs) ==
  Mul(Mul(Mul(Mul(Mul(Mul(s, cd), cd), Div(ref, obs)), Div(ref, obs)), Num(100)), Num(100))

\* mean_vf_err
MeanVfErr(e, cd, ref, obs) ==
  RootMul(Sqrt(e),
          AbsF(Mul(Mul(Mul(Mul(Mul(cd, cd), Div(ref, obs)), Div(ref, obs)),
                       Num(100)), Num(100))))

\* rsun_ref/rsun_obs raises for Python floats and a zero divisor
DivisionRaises(c) == scalar_type[c] = "float" /\ IsFin(rsun_obs[c]) /\ rsun_obs[c].n = 0

\* the two assignments after the loops
Scale(c) ==
  /\ pc[c] = "scale"
  /\ ~DivisionRaises(c)
  /\ mean_vf' = [mean_vf EXCEPT ![c] =
                   MeanVf(sum[c], cdelt1_arcsec[c], rsun_ref[c], rsun_obs[c])]
  /\ mean_vf_err' = [mean_vf_err EXCEPT ![c] =
                       MeanVfErr(err[c], cdelt1_arcsec[c], rsun_ref[c], rsun_obs[c])]
  /\ pc' = [pc EXCEPT ![c] = "return"]
  /\ UNCHANGED <<others, args, j, i, sum, err, count_mask, exc, result>>

RaiseZeroDivisionError(c) ==
  /\ pc[c] = "scale"
  /\ DivisionRaises(c)
  /\ pc' = [pc EXCEPT ![c] = "raised"]
  /\ exc' = [exc EXCEPT ![c] = "ZeroDivisionError"]
  /\ UNCHANGED <<others, args, j, i, sum, err, count_mask, mean_vf, mean_vf_err, result>>

\* return [mean_vf, mean_vf_err, count_mask]
Return(c) ==
  /\ pc[c] = "return"
  /\ result' = [result EXCEPT ![c] = <<mean_vf[c], mean_vf_err[c], count_mask[c]>>]
  /\ pc' = [pc EXCEPT ![c] = "done"]
  /\ UNCHANGED <<others, args, j, i, sum, err, count_mask, mean_vf, mean_vf_err, exc>>

Next ==
  \/ \E c \in Calls : SkipMasked(c)
  \/ \E c \in Calls : SkipNaN(c)
  \/ \E c \in Calls : Accumulate(c)
  \/ \E c \in Calls : RaiseIndexError(c)
  \/ \E c \in Calls : Scale(c)
  \/ \E c \in Calls : RaiseZeroDivisionError(c)
  \/ \E c \in Calls : Return(c)

Spec == Init /\ [][Next]_vars

\* pixel values that take the three ways through an iteration
LoopKinds ==
  { Px(Num(-2), Num(0), 90, 33),
    Px(Num(5), Num(1), 69, 30),
    Px(NaN, Num(3), 70, 30) }

\* one call on a patch of any shape within the bounds
InitFair ==
  \E s \in Shapes, geo \in Geometries :
    \E g \in [Pixels(s) -> LoopKinds] :
      \/ Start([c \in {1} |-> Patch(s, g, geo)])
      \/ \E w \in ArrayNames, t \in Smaller(s) :
           Start([c \in {1} |-> Reshaped(Patch(s, g, geo), w, t)])

\* the interpreter goes on executing a call until it returns or raises
SpecFair == InitFair /\ [][Next]_vars /\ WF_vars(Next)

\* The iterations from pixel number k (row-major) on, run one after the
\* other without another call in between; acc holds the accumulators.
RECURSIVE Loops(_, _, _)
Loops(in, k, acc) ==
  LET jj == k \div in.bz.shape[2]
      ii == k % in.bz.shape[2]
  IN  IF k = in.bz.shape[1] * in.bz.shape[2] THEN acc
      ELSE IF ~InBounds(in.conf_disambig, jj, ii) THEN [acc EXCEPT !.exc = "IndexError"]
      ELSE IF LowConfidence(At(in.conf_disambig, jj, ii)) THEN Loops(in, k + 1, acc)
      ELSE IF ~InBounds(in.bitmap, jj, ii) THEN [acc EXCEPT !.exc = "IndexError"]
      ELSE IF OutsideRegion(At(in.bitmap, jj, ii)) THEN Loops(in, k + 1, acc)
      ELSE IF IsNaN(At(in.bz, jj, ii)) THEN Loops(in, k + 1, acc)
      ELSE IF ~InBounds(in.bz_err, jj, ii) THEN [acc EXCEPT !.exc = "IndexError"]
      ELSE Loops(in, k + 1,
                 [acc EXCEPT !.sum = SumPlus(acc.sum, At(in.bz, jj, ii)),
                             !.err = ErrPlus(acc.err, At(in.bz_err, jj, ii)),
                             !.count_mask = acc.count_mask + 1])

\* The whole call run by itself: what it returns and the exception it ends
\* with.
compute_abs_flux_dask(in) ==
  LET l == Loops(in, 0, [sum |-> Zero, err |-> Zero, count_mask |-> 0, exc |-> None])
  IN  IF l.exc # None THEN [result |-> NoResult, exc |-> l.exc]
      ELSE IF in.scalar_type = "float" /\ IsFin(in.rsun_obs) /\ in.rsun_obs.n = 0
      THEN [result |-> NoResult, exc |-> "ZeroDivisionError"]
      ELSE [result |-> << MeanVf(l.sum, in.cdelt1_arcsec, in.rsun_ref, in.rsun_obs),
                          MeanVfErr(l.err, in.cdelt1_arcsec, in.rsun_ref, in.rsun_obs),
                          l.count_mask >>,
            exc |-> None]

\* --------------------------------------------------------------------------
\* Two calls side by side, the second on the negated field map
\* --------------------------------------------------------------------------
PairShapes == { s \in Shapes : s[1] * s[2] <= MaxPairPixels }

NegArray(a) == Array(a.shape, [p \in Pixels(a.shape) |-> Neg(a.at[p])])

Negated(in) == [in EXCEPT !.bz = NegArray(in.bz)]

InitNeg ==
  \E s \in PairShapes, geo \in Geometries :
    \E g \in [Pixels(s) -> PixelKinds] :
      \/ Start([c \in {1, 2} |-> IF c = 1 THEN Patch(s, g, geo)
                                  ELSE Negated(Patch(s, g, geo))])
      \/ \E w \in ArrayNames, t \in Smaller(s) :
           Start([c \in {1, 2} |-> IF c = 1 THEN Reshaped(Patch(s, g, geo), w, t)
                                    ELSE Negated(Reshaped(Patch(s, g, geo), w, t))])

SpecNeg == InitNeg /\ [][Next]_vars

\* --------------------------------------------------------------------------
\* Two calls side by side on different patches
\* --------------------------------------------------------------------------
\* the patches of the second call: two pixels that are both used, an
\* infinite field over a zero observed radius, an error map that is too small
Companions ==
  { Patch(<<1, 2>>, [p \in Pixels(<<1, 2>>) |->
                       IF p[2] = 0 THEN Px(Fin(25, 1, -1), Fin(5, 1, -1), 70, 30)
                       ELSE Px(Num(-2), Num(0), 90, 33)],
          Geo(Num(3), Num(2), Num(2), "float")),
    Patch(<<1, 1>>, [p \in Pixels(<<1, 1>>) |-> Px(Inf(1), Num(1), 90, 33)],
          Geo(Num(1), Num(0), Num(1), "numpy.float64")),
    Reshaped(Patch(<<2, 1>>, [p \in Pixels(<<2, 1>>) |-> Px(Num(-2), Num(0), 90, 33)],
                   Geo(Num(2), Num(1), Num(-1), "float")),
             "bz_err", <<1, 1>>) }

InitPair ==
  \E s \in PairShapes, geo \in Geometries, o \in Companions :
    \E g \in [Pixels(s) -> PixelKinds] :
      Start([c \in {1, 2} |-> IF c = 1 THEN Patch(s, g, geo) ELSE o])

SpecPair == InitPair /\ [][Next]_vars

\* --------------------------------------------------------------------------
\* Two calls on the same pixels, the second one visiting them in another
\* order
\* --------------------------------------------------------------------------
\* one row of pixels
OrderShape == <<1, MaxOrderPixels>>

\* float64 fields 2^53 and -1 that are used, a field that is masked and a
\* NaN field
OrderKinds ==
  { Px(BinOf(1, {Significand}), Num(1), 90, 33),
    Px(BinOf(-1, {0}), Num(0), 70, 30),
    Px(BinOf(1, {0}), Num(2), 69, 33),
    Px(NaN, Num(3), 90, 33) }

\* the usual geometry, and a zero observed radius as a Python float
OrderGeometries ==
  { Geo(Num(1), Num(1), Fin(5, 1, -1), "numpy.float64"),
    Geo(Num(1), Num(0), Num(1), "float") }

\* the orders in which the pixels of S can be visited: f[p] is the pixel
\* that is visited when the row-major order visits p
VisitingOrders(S) == { f \in [S -> S] : \A q \in S : \E p \in S : f[p] = q }

Reordered(a, f) == Array(a.shape, [p \in Pixels(a.shape) |-> a.at[f[p]]])

\* the patch on which the loops, in row-major order, visit the pixels of in
\* in the order f
Permuted(in, f) ==
  [in EXCEPT !.bz            = Reordered(in.bz, f),
             !.bz_err        = Reordered(in.bz_err, f),
             !.conf_disambig = Reordered(in.conf_disambig, f),
             !.bitmap        = Reordered(in.bitmap, f)]

InitOrder ==
  \E geo \in OrderGeometries :
    \E g \in [Pixels(OrderShape) -> OrderKinds] :
      \/ \E f \in VisitingOrders(Pixels(OrderShape)) :
           Start([c \in {1, 2} |-> IF c = 1 THEN Patch(OrderShape, g, geo)
                                    ELSE Permuted(Patch(OrderShape, g, geo), f)])
      \/ \E w \in ArrayNames, t \in Smaller(OrderShape) :
           Start([c \in {1, 2} |-> Reshaped(Patch(OrderShape, g, geo), w, t)])

SpecOrder == InitOrder /\ [][Next]_vars

\* --------------------------------------------------------------------------
\* get_data_for_a_single_trec_dask and get_data_for_a_single_trec_numpy on
\* one row of the query result
\* --------------------------------------------------------------------------
\* who holds the tuple of the dask getter, and who that of the numpy getter
Dask == 1

Numpy == 2

\* da.from_array(a): the elements of a behind a graph of one chunk
FromArray(a) == [shape |-> a.shape, at |-> a.at, chunks |-> <<a.shape>>]

\* math.atan(x*radsindeg)*(1/radsindeg)*3600. for x = q: 0 for 0, a quarter
\* turn for an infinite q, and else a value that is known by q alone
Arcsec(q) ==
  IF IsNaN(q) THEN NaN
  ELSE IF IsInf(q) THEN Num(Sgn(q.n) * 324000)
  ELSE IF q.n = 0 THEN Zero
  ELSE [q EXCEPT !.k = "arcsec"]

\* cdelt1_arcsec of a row of keywords
CdeltArcsec(row) == Arcsec(Div(Mul(row.RSUN_REF, row.CDELT1), row.DSUN_OBS))

Keywords(ref, obs, cd, dsun) ==
  [RSUN_REF |-> ref, RSUN_OBS |-> obs, CDELT1 |-> cd, DSUN_OBS |-> dsun]

\* rows of keywords: those of an observation, a zero distance, a zero pixel
\* scale, a missing radius
KeyRows ==
  { Keywords(Num(696000000), Fin(9753, 1, -1), Fin(3, 1, -2), Fin(147, 1, 9)),
    Keywords(Num(696000000), Fin(9753, 1, -1), Fin(3, 1, -2), Zero),
    Keywords(Num(2), Num(1), Zero, Num(150)),
    Keywords(NaN, Num(1), Num(1), Num(150)) }

\* the images of a row, taken from the arrays of a patch
Images(in) ==
  [Br |-> in.bz, Br_err |-> in.bz_err, conf_disambig |-> in.conf_disambig,
   bitmap |-> in.bitmap]

\* a row has been queried and neither getter has run
Queried(seg, row) ==
  /\ segments = seg /\ keys = row
  /\ bz = <<Unbound, Unbound>> /\ bz_err = <<Unbound, Unbound>>
  /\ conf_disambig = <<Unbound, Unbound>> /\ bitmap = <<Unbound, Unbound>>
  /\ nx = <<0, 0>> /\ ny = <<0, 0>>
  /\ rsun_ref = <<Unbound, Unbound>> /\ rsun_obs = <<Unbound, Unbound>>
  /\ cdelt1_arcsec = <<Unbound, Unbound>>
  /\ scalar_type = <<"numpy.float64", "numpy.float64">>
  /\ count_mask = <<0, 0>> /\ sum = <<Unbound, Unbound>> /\ err = <<Unbound, Unbound>>
  /\ j = <<0, 0>> /\ i = <<0, 0>>
  /\ mean_vf = <<Unbound, Unbound>> /\ mean_vf_err = <<Unbound, Unbound>>
  /\ pc = [c \in {Dask, Numpy} |-> IF c = Dask THEN "get_dask" ELSE "get_numpy"]
  /\ exc = <<None, None>> /\ result = <<NoResult, NoResult>>
  /\ NoDisambiguator

InitData ==
  \E s \in PairShapes, row \in KeyRows :
    \E g \in [Pixels(s) -> PixelKinds] :
      \/ Queried(Images(Patch(s, g, Geo(Zero, Zero, Zero, ""))), row)
      \/ \E w \in ArrayNames, t \in Smaller(s) :
           Queried(Images(Reshaped(Patch(s, g, Geo(Zero, Zero, Zero, "")), w, t)), row)

get_data_numpy_transposed(c) ==
  /\ pc[c] = "get_numpy"
  /\ bz' = [bz EXCEPT ![c] = segments.Br]
  /\ bz_err' = [bz_err EXCEPT ![c] = segments.Br_err]
  /\ conf_disambig' = [conf_disambig EXCEPT ![c] = segments.conf_disambig]
  /\ bitmap' = [bitmap EXCEPT ![c] = segments.bitmap]
  /\ nx' = [nx EXCEPT ![c] = bz'[c].shape[1]]
  /\ ny' = [ny EXCEPT ![c] = bz'[c].shape[2]]
  /\ rsun_ref' = [rsun_ref EXCEPT ![c] = keys.RSUN_REF]
  /\ rsun_obs' = [rsun_obs EXCEPT ![c] = keys.RSUN_OBS]
  /\ cdelt1_arcsec' = [cdelt1_arcsec EXCEPT ![c] = CdeltArcsec(keys)]
  /\ pc' = [pc EXCEPT ![c] = "got"]
  /\ UNCHANGED <<others, scalar_type, j, i, sum, err, count_mask, mean_vf,
                 mean_vf_err, exc, result>>

\* the four images wrapped as dask arrays, nx and ny from the shape of bz,
\* the radii, and the pixel scale in arcseconds
get_data_for_a_single_trec_dask(c) ==
  /\ pc[c] = "get_dask"
  /\ bz' = [bz EXCEPT ![c] = FromArray(segments.Br)]
  /\ bz_err' = [bz_err EXCEPT ![c] = FromArray(segments.Br_err)]
  /\ conf_disambig' = [conf_disambig EXCEPT ![c] = FromArray(segments.conf_disambig)]
  /\ bitmap' = [bitmap EXCEPT ![c] = FromArray(segments.bitmap)]
  /\ nx' = [nx EXCEPT ![c] = bz'[c].shape[2]]
  /\ ny' = [ny EXCEPT ![c] = bz'[c].shape[1]]
  /\ rsun_ref' = [rsun_ref EXCEPT ![c] = keys.RSUN_REF]
  /\ rsun_obs' = [rsun_obs EXCEPT ![c] = keys.RSUN_OBS]
  /\ cdelt1_arcsec' = [cdelt1_arcsec EXCEPT ![c] = CdeltArcsec(keys)]
  /\ pc' = [pc EXCEPT ![c] = "got"]
  /\ UNCHANGED <<others, scalar_type, j, i, sum, err, count_mask, mean_vf,
                 mean_vf_err, exc, result>>

\* the four images as numpy arrays, nx and ny from the shape of bz, the
\* radii, and the pixel scale in arcseconds
get_data_for_a_single_trec_numpy(c) ==
  /\ pc[c] = "get_numpy"
  /\ bz' = [bz EXCEPT ![c] = segments.Br]
  /\ bz_err' = [bz_err EXCEPT ![c] = segments.Br_err]
  /\ conf_disambig' = [conf_disambig EXCEPT ![c] = segments.conf_disambig]
  /\ bitmap' = [bitmap EXCEPT ![c] = segments.bitmap]
  /\ nx' = [nx EXCEPT ![c] = bz'[c].shape[2]]
  /\ ny' = [ny EXCEPT ![c] = bz'[c].shape[1]]
  /\ rsun_ref' = [rsun_ref EXCEPT ![c] = keys.RSUN_REF]
  /\ rsun_obs' = [rsun_obs EXCEPT ![c] = keys.RSUN_OBS]
  /\ cdelt1_arcsec' = [cdelt1_arcsec EXCEPT ![c] = CdeltArcsec(keys)]
  /\ pc' = [pc EXCEPT ![c] = "got"]
  /\ UNCHANGED <<others, scalar_type, j, i, sum, err, count_mask, mean_vf,
                 mean_vf_err, exc, result>>

NextData ==
  \/ \E c \in Calls : get_data_for_a_single_trec_dask(c)
  \/ \E c \in Calls : get_data_for_a_single_trec_numpy(c)

SpecData == InitData /\ [][NextData]_vars

\* --------------------------------------------------------------------------
\* The Disambiguator, after its contract:
\* disambiguate(azimuth, method_code, confidence, inclination)
\* --------------------------------------------------------------------------
AzimuthPixels == 1 .. MaxAzimuthPixels

\* the closed set of strategies: a potential-field-consistent choice, the
\* random choice, a minimum-energy choice
PotentialField == 0

RandomChoice == 1

MinimumEnergy == 2

MethodCodes == {PotentialField, RandomChoice, MinimumEnergy}

\* a code outside the closed set
UnknownCode == 7

Degrees == {0, 90, 270}

\* the shifts by 0 or 180 degrees of the pixels of a map
Shifts == [AzimuthPixels -> {0, 180}]

\* an azimuth shifted within the range convention of the input
Shifted(az, shift) == (az + shift) % 360

AlwaysRandom(m) == TRUE

\* the strategy is the random one
IsRandom(m) == m = RandomChoice

\* an azimuth map, a method code, confidences on either side of the
\* threshold, and the shifts that the non-random strategy named by the code
\* (a pure function) yields on these arguments
InitDisambiguator ==
  /\ Called(<<>>) /\ NoNotebook
  /\ azimuth \in [AzimuthPixels -> Degrees]
  /\ method_code \in MethodCodes \cup {UnknownCode}
  /\ confidence \in { [p \in AzimuthPixels |-> 90],
                       [p \in AzimuthPixels |-> IF p = 1 THEN 60 ELSE 90] }
  /\ inclination = [p \in AzimuthPixels |-> 45]
  /\ strategy \in Shifts
  /\ resolved_azimuth = <<>>

\* one application: every pixel, whatever its confidence, is shifted by 0 or
\* 180 degrees, as the strategy has it or, for the random strategy, anyhow
disambiguate ==
  /\ Len(resolved_azimuth) < MaxApplications
  /\ method_code \in MethodCodes
  /\ \E r \in Shifts :
       /\ ~IsRandom(method_code) => r = strategy
       /\ resolved_azimuth' =
            Append(resolved_azimuth,
                   [azimuth |-> [p \in AzimuthPixels |-> Shifted(azimuth[p], r[p])],
                    exc |-> None])
  /\ UNCHANGED <<args, locals, notebook, azimuth, method_code, confidence,
                 inclination, strategy>>

\* an application with an unknown method code fails
RaiseUnknownMethod ==
  /\ Len(resolved_azimuth) < MaxApplications
  /\ method_code \notin MethodCodes
  /\ resolved_azimuth' =
       Append(resolved_azimuth, [azimuth |-> <<>>, exc |-> "UnknownMethod"])
  /\ UNCHANGED <<args, locals, notebook, azimuth, method_code, confidence,
                 inclination, strategy>>

NextDisambiguator == disambiguate \/ RaiseUnknownMethod

SpecDisambiguator == InitDisambiguator /\ [][NextDisambiguator]_vars

\* --------------------------------------------------------------------------
\* Properties
\* --------------------------------------------------------------------------
\* the co-required arrays of call c have one shape
SameShape(c) ==
  /\ bz_err[c].shape = bz[c].shape
  /\ conf_disambig[c].shape = bz[c].shape
  /\ bitmap[c].shape = bz[c].shape

\* the validity of pixel p as the data model states it
Valid(c, p) ==
  /\ conf_disambig[c].at[p] >= 70
  /\ bitmap[c].at[p] >= 30
  /\ ~IsNaN(bz[c].at[p])

ValidPixels(c) == { p \in Pixels(bz[c].shape) : Valid(c, p) }

RECURSIVE SumAbs(_, _)
SumAbs(a, S) ==
  IF S = {} THEN Zero
  ELSE LET p == CHOOSE q \in S : TRUE
       IN  Add(AbsF(a.at[p]), SumAbs(a, S \ {p}))

RECURSIVE SumSq(_, _)
SumSq(a, S) ==
  IF S = {} THEN Zero
  ELSE LET p == CHOOSE q \in S : TRUE
       IN  Add(Mul(a.at[p], a.at[p]), SumSq(a, S \ {p}))

\* cdelt1_arcsec^2 * (rsun_ref/rsun_obs)^2 * 100^2
PixelArea(c) ==
  LET r == Div(rsun_ref[c], rsun_obs[c])
  IN  Mul(Mul(Mul(cdelt1_arcsec[c], cdelt1_arcsec[c]), Mul(r, r)),
          Mul(Num(100), Num(100)))

\* call c took a step
Stepped(c) == <<j[c], i[c], pc[c]>>' # <<j[c], i[c], pc[c]>>

\* the three updates of an iteration of call c on pixel (j, i)
Used(c) ==
  /\ sum'[c] = Add(sum[c], AbsF(At(bz[c], j[c], i[c])))
  /\ err'[c] = Add(err[c], Mul(At(bz_err[c], j[c], i[c]), At(bz_err[c], j[c], i[c])))
  /\ count_mask'[c] = count_mask[c] + 1

\* C1: with arrays of one shape, an iteration uses its pixel (adds to sum,
\* adds to err, increments count_mask) iff bitmap >= 30, conf_disambig >= 70
\* and bz is not NaN, and the returned count is the number of such pixels.
C1_UsedIffValid ==
  /\ [](\A c \in Calls :
          pc[c] = "done" /\ SameShape(c)
            => result[c][3] = Cardinality(ValidPixels(c)))
  /\ [][\A c \in Calls :
          pc[c] = "loop" /\ SameShape(c) /\ Stepped(c)
            => (Used(c) <=> Valid(c, <<j[c], i[c]>>))]_vars

\* a finished call on a patch that has a valid pixel on both thresholds and
\* an invalid one
C1_Witness ==
  \E c \in Calls :
    /\ pc[c] = "done" /\ SameShape(c)
    /\ \E p \in ValidPixels(c) : bitmap[c].at[p] = 30 /\ conf_disambig[c].at[p] = 70
    /\ ValidPixels(c) # Pixels(bz[c].shape)
    /\ result[c][3] = Cardinality(ValidPixels(c))

\* C2: the returned flux is the sum of |Br| over the valid pixels times the
\* area of a pixel.
C2_FluxIsMaskedSum ==
  \A c \in Calls :
    pc[c] = "done" /\ SameShape(c)
      => result[c][1] = Mul(SumAbs(bz[c], ValidPixels(c)), PixelArea(c))

\* a finished call with a negative valid pixel, an invalid pixel and a
\* finite, non-zero flux
C2_Witness ==
  \E c \in Calls :
    /\ pc[c] = "done" /\ SameShape(c)
    /\ \E p \in ValidPixels(c) : IsFin(bz[c].at[p]) /\ bz[c].at[p].n < 0
    /\ ValidPixels(c) # Pixels(bz[c].shape)
    /\ IsFin(result[c][1]) /\ result[c][1].n > 0

\* C3: the returned uncertainty is the square root of the sum of the squared
\* Br errors over the valid pixels times the area of a pixel.
C3_ErrorIsMaskedRootSumSquares ==
  \A c \in Calls :
    pc[c] = "done" /\ SameShape(c)
      => result[c][2] = RootMul(Sqrt(SumSq(bz_err[c], ValidPixels(c))), PixelArea(c))

\* a finished call with an invalid pixel of non-zero error, a valid pixel of
\* non-zero error and a finite, non-zero uncertainty
C3_Witness ==
  \E c \in Calls :
    /\ pc[c] = "done" /\ SameShape(c)
    /\ \E p \in Pixels(bz[c].shape) \ ValidPixels(c) : bz_err[c].at[p] # Zero
    /\ \E p \in ValidPixels(c) : bz_err[c].at[p] # Zero
    /\ result[c][2].k = "fin" /\ result[c][2].s = 1

\* C4: a call without a valid pixel returns the count 0 together with a NaN
\* value.
C4_NoValidPixelIsNaN ==
  \A c \in Calls :
    pc[c] = "done" /\ SameShape(c) /\ ValidPixels(c) = {}
      => result[c][3] = 0 /\ IsNaN(result[c][1])

\* C5: no iteration adds a pixel whose field or error value is NaN or
\* infinite.
C5_NonFiniteExcluded ==
  [][\A c \in Calls :
       pc[c] = "loop" /\ SameShape(c) /\ count_mask'[c] # count_mask[c]
         => /\ IsFin(At(bz[c], j[c], i[c]))
            /\ IsFin(At(bz_err[c], j[c], i[c]))]_vars

\* C6: a call on the negated field map returns what the call on the field
\* map returns, and ends as it ends.
C6_NegationInvariant ==
  \A c, n \in Calls :
    /\ bz[n] = NegArray(bz[c])
    /\ <<bz_err[n], conf_disambig[n], bitmap[n]>> = <<bz_err[c], conf_disambig[c], bitmap[c]>>
    /\ <<rsun_ref[n], rsun_obs[n], cdelt1_arcsec[n], scalar_type[n]>>
         = <<rsun_ref[c], rsun_obs[c], cdelt1_arcsec[c], scalar_type[c]>>
    /\ pc[c] \in {"done", "raised"} /\ pc[n] \in {"done", "raised"}
    => result[n] = result[c] /\ pc[n] = pc[c] /\ exc[n] = exc[c]

\* both calls have returned a finite, non-zero flux of a map with a valid
\* pixel whose negation differs from it
C6_Witness ==
  /\ Calls = {1, 2}
  /\ bz[2] = NegArray(bz[1]) /\ bz[2] # bz[1]
  /\ pc[1] = "done" /\ pc[2] = "done"
  /\ \E p \in ValidPixels(1) : IsFin(bz[1].at[p]) /\ bz[1].at[p].n # 0
  /\ IsFin(result[1][1]) /\ result[1][1].n > 0
  /\ result[2] = result[1]

\* call c runs on a constant, error-free field over a fully valid region
\* with a finite area per pixel
ConstantErrorFree(c) ==
  /\ SameShape(c)
  /\ ValidPixels(c) = Pixels(bz[c].shape)
  /\ \A p \in Pixels(bz[c].shape) :
       /\ bz[c].at[p] = bz[c].at[<<0, 0>>]
       /\ IsFin(bz[c].at[p])
       /\ bz_err[c].at[p] = Zero
  /\ IsFin(PixelArea(c))

\* C7 as stated: the flux of a constant, error-free Br = c over n valid
\* pixels of area A is c * n * A, with error 0 and count n.
C7_ConstantFieldSigned ==
  \A c \in Calls :
    pc[c] = "done" /\ ConstantErrorFree(c)
      => result[c] = << Mul(Mul(bz[c].at[<<0, 0>>], Num(nx[c] * ny[c])), PixelArea(c)),
                        RZero, nx[c] * ny[c] >>

\* C7 (amended): the flux of a constant, error-free Br = c over n valid
\* pixels of area A is |c| * n * A, with error 0 and count n; Br = 10 over
\* 10x10 pixels of 4e14 cm^2 gives 4e17.
C7_ConstantField ==
  \A c \in Calls :
    pc[c] = "done" /\ ConstantErrorFree(c)
      => /\ result[c] = << Mul(Mul(AbsF(bz[c].at[<<0, 0>>]), Num(nx[c] * ny[c])),
                               PixelArea(c)),
                           RZero, nx[c] * ny[c] >>
         /\ ( /\ bz[c].at[<<0, 0>>] = Num(10)
              /\ nx[c] = 10 /\ ny[c] = 10
              /\ PixelArea(c) = Fin(4, 1, 14)
              => result[c] = <<Fin(4, 1, 17), RZero, 100>> )

\* the call on the 10x10 scenario has returned 4e17 with error 0
C7_Witness ==
  \E c \in Calls :
    /\ pc[c] = "done" /\ ConstantErrorFree(c)
    /\ bz[c].at[<<0, 0>>] = Num(10) /\ nx[c] = 10 /\ ny[c] = 10
    /\ PixelArea(c) = Fin(4, 1, 14)
    /\ result[c] = <<Fin(4, 1, 17), RZero, 100>>

\* C8: a call whose arrays differ in shape computes and returns nothing and
\* fails with ShapeMismatch.
C8_ShapeMismatchFails ==
  \A c \in Calls :
    ~SameShape(c)
      => /\ mean_vf[c] = Unbound /\ result[c] = NoResult
         /\ exc[c] \in {None, "ShapeMismatch"}

NonPositive(x) == IsFin(x) /\ x.n <= 0

\* C9: a call with a zero or negative rsun_obs computes and returns nothing
\* and fails with InvalidGeometry.
C9_NonPositiveRadiusFails ==
  \A c \in Calls :
    SameShape(c) /\ NonPositive(rsun_obs[c])
      => /\ mean_vf[c] = Unbound /\ result[c] = NoResult
         /\ exc[c] \in {None, "InvalidGeometry"}

\* C10: no step of a call changes the field map, the error map, the bitmap,
\* the confidence map or the geometry scalars.
C10_InputsNeverMutated ==
  [][UNCHANGED <<bz, bz_err, conf_disambig, bitmap, rsun_ref, rsun_obs,
                 cdelt1_arcsec>>]_vars

\* a call has returned after adding pixels to its accumulators
C10_Witness ==
  \E c \in Calls :
    /\ pc[c] = "done"
    /\ count_mask[c] > 0 /\ sum[c] # Zero /\ err[c] # Zero

\* the arguments of call c
ArgsOf(c) ==
  [bz |-> bz[c], bz_err |-> bz_err[c], conf_disambig |-> conf_disambig[c],
   bitmap |-> bitmap[c], rsun_ref |-> rsun_ref[c], rsun_obs |-> rsun_obs[c],
   cdelt1_arcsec |-> cdelt1_arcsec[c], scalar_type |-> scalar_type[c]]

\* the locals of call c
LocalsOf(c) ==
  <<j[c], i[c], sum[c], err[c], count_mask[c], mean_vf[c], mean_vf_err[c],
    pc[c], exc[c], result[c]>>

\* C11: two calls on different patches whose steps interleave in any way
\* each end as the call run by itself ends (same returned triple, same
\* exception), and a step of one call changes no local of the other.
C11_InterleavedAsSequential ==
  /\ [](\A c \in Calls :
          pc[c] \in {"done", "raised"}
            => [result |-> result[c], exc |-> exc[c]] = compute_abs_flux_dask(ArgsOf(c)))
  /\ [][\A c \in Calls : Stepped(c) =>
          \A d \in Calls \ {c} : LocalsOf(d)' = LocalsOf(d)]_vars

\* both calls have returned, each its own flux and its own non-zero count
C11_Witness ==
  /\ Calls = {1, 2}
  /\ pc[1] = "done" /\ pc[2] = "done"
  /\ bz[1] # bz[2]
  /\ result[1][1] # result[2][1] /\ result[1][3] # result[2][3]
  /\ result[1][3] > 0 /\ result[2][3] > 0

\* cdelt1_arcsec^2 * 100^2
FlatArea(c) ==
  Mul(Mul(cdelt1_arcsec[c], cdelt1_arcsec[c]), Mul(Num(100), Num(100)))

\* C12: a call with rsun_ref == rsun_obs returns sum and sqrt(err) scaled
\* by cdelt1_arcsec^2 * 100^2 alone, the ratio of the radii contributing 1.
C12_EqualRadiiFlatArea ==
  \A c \in Calls :
    pc[c] = "done" /\ rsun_ref[c] = rsun_obs[c]
      => /\ result[c][1] = Mul(sum[c], FlatArea(c))
         /\ result[c][2] = RootMul(Sqrt(err[c]), FlatArea(c))

PixelNumber(c) == j[c] * nx[c] + i[c]

SameContents(a, b) ==
  /\ a.shape = b.shape
  /\ \A p \in Pixels(a.shape) : At(a, p[1], p[2]) = b.at[p]

Visited(c) == IF pc[c] = "loop" THEN PixelNumber(c) ELSE ny[c] * nx[c]

\* the pixels that call c has visited, and the valid ones among them
VisitedPixels(c) == { p \in Pixels(bz[c].shape) : p[1] * nx[c] + p[2] < Visited(c) }

VisitedValid(c) == { p \in VisitedPixels(c) : Valid(c, p) }

\* C17: at every iteration boundary of a call and after its loop, k pixels
\* having been visited, count_mask is the number of valid pixels among them,
\* sum is the sum of |bz| and err the sum of bz_err^2 over these valid
\* pixels, and 0 <= count_mask <= k <= ny*nx.
C17_LoopInvariant ==
  \A c \in Calls :
    exc[c] # "IndexError"
      => /\ count_mask[c] = Cardinality(VisitedValid(c))
         /\ sum[c] = SumAbs(bz[c], VisitedValid(c))
         /\ err[c] = SumSq(bz_err[c], VisitedValid(c))
         /\ 0 <= count_mask[c] /\ count_mask[c] <= Visited(c)
         /\ Visited(c) <= ny[c] * nx[c]

\* a call in the middle of its loop: a valid and an invalid pixel visited, a
\* valid pixel still to come
C17_Witness ==
  \E c \in Calls :
    /\ pc[c] = "loop"
    /\ Visited(c) >= 2 /\ count_mask[c] >= 1 /\ count_mask[c] < Visited(c)
    /\ sum[c] # Zero /\ err[c] # Zero
    /\ ValidPixels(c) # VisitedValid(c)

\* C18: an iteration that completes on a pixel rejected by one of the
\* three checks (conf_disambig < 70, bitmap < 30, NaN bz) leaves sum, err and
\* count_mask as they are; one that completes on an accepted pixel adds to
\* sum and to err and increments count_mask by exactly 1.
C18_AllOrNothing ==
  [][\A c \in Calls :
       pc[c] = "loop" /\ Stepped(c) /\ pc'[c] # "raised"
         => IF Valid(c, <<j[c], i[c]>>)
            THEN Used(c)
            ELSE <<sum[c], err[c], count_mask[c]>>' = <<sum[c], err[c], count_mask[c]>>]_vars

\* a call has left its loop with one pixel used and three pixels rejected,
\* one by each check
C18_Witness ==
  \E c \in Calls :
    /\ pc[c] = "scale" /\ count_mask[c] = 1
    /\ sum[c] # Zero /\ err[c] # Zero
    /\ \E p \in Pixels(bz[c].shape) : conf_disambig[c].at[p] < 70
    /\ \E p \in Pixels(bz[c].shape) :
         conf_disambig[c].at[p] >= 70 /\ bitmap[c].at[p] < 30
    /\ \E p \in Pixels(bz[c].shape) :
         conf_disambig[c].at[p] >= 70 /\ bitmap[c].at[p] >= 30 /\ IsNaN(bz[c].at[p])

\* --------------------------------------------------------------------------
\* C19
\* --------------------------------------------------------------------------
\* the second call has the pixels of the first one, in another order
IsReordering ==
  /\ Calls = {1, 2}
  /\ <<rsun_ref[1], rsun_obs[1], cdelt1_arcsec[1], scalar_type[1]>>
       = <<rsun_ref[2], rsun_obs[2], cdelt1_arcsec[2], scalar_type[2]>>
  /\ SameShape(1)
  /\ \E f \in VisitingOrders(Pixels(bz[1].shape)) :
       /\ bz[2] = Reordered(bz[1], f)
       /\ bz_err[2] = Reordered(bz_err[1], f)
       /\ conf_disambig[2] = Reordered(conf_disambig[1], f)
       /\ bitmap[2] = Reordered(bitmap[1], f)

\* the sum of the values of the pixels S of a, without rounding
RECURSIVE ExactBits(_, _)
ExactBits(a, S) ==
  IF S = {} THEN {}
  ELSE LET p == CHOOSE q \in S : TRUE
       IN  AddBits(ExactBits(a, S \ {p}), a.at[p].bits)

\* no sum of used pixels of call c is rounded: each of them is a multiple of
\* the lowest bit of the values and at most their total, and the two are
\* less than a significand apart; the squared errors are exact
ExactSums(c) ==
  LET V == ValidPixels(c)
      L == UNION { bz[c].at[p].bits : p \in V }
  IN  /\ \A p \in V : bz[c].at[p].k = "bin" /\ IsFin(bz_err[c].at[p])
      /\ L # {} => Max(ExactBits(bz[c], V)) - Min(L) < Significand

RealErrors(c) == \A p \in Pixels(bz_err[c].shape) : ~IsNaN(bz_err[c].at[p])

\* x >= 0 for a value, and for the value of np.sqrt(x)*a
NonNegative(x) == ~IsNaN(x) /\ x.n >= 0

RootNonNegative(r) == r.k # "nan" /\ r.s >= 0

\* x <= y for values that are not negative
AtMost(x, y) ==
  IF IsNaN(x) \/ IsNaN(y) THEN FALSE
  ELSE IF IsInf(y) THEN TRUE
  ELSE IF IsInf(x) THEN FALSE
  ELSE LET m == IF x.e < y.e THEN x.e ELSE y.e
       IN  x.n * Pow10(x.e - m) * y.d <= y.n * Pow10(y.e - m) * x.d

\* C20: in a call whose errors are not NaN, sum, err and count_mask are
\* never negative and no step decreases them, and the returned value and
\* uncertainty are not negative, whatever the signs of the field and of
\* the geometry scalars.
C20_NonNegativeAndMonotone ==
  /\ [](\A c \in Calls :
         RealErrors(c)
           => /\ NonNegative(sum[c]) /\ NonNegative(err[c]) /\ count_mask[c] >= 0
              /\ pc[c] = "done"
                   => NonNegative(result[c][1]) /\ RootNonNegative(result[c][2]))
  /\ [][\A c \in Calls :
          RealErrors(c)
            => /\ AtMost(sum[c], sum'[c]) /\ AtMost(err[c], err'[c])
               /\ count_mask[c] <= count_mask'[c]]_vars
====
